---- MODULE Spec2Model ----
(***************************************************************************)
(* Pre-block system calls of the block executor:                           *)
(*   crates/evm/src/block/system_calls/eip2935.rs  (blockhashes contract)  *)
(*   crates/evm/src/block/system_calls/eip4788.rs  (beacon roots contract) *)
(* Each procedure is an operator from its arguments (chain spec, value,    *)
(* EVM handle) to its return value, the dispatcher invocations it made and *)
(* the EVM handle after the call.                                          *)
(***************************************************************************)
EXTENDS Integers, Sequences, FiniteSets, TLC

\* ---------------------------------------------------------------- bounds
MaxTimestamp == 1
MaxNumber == 1
HashLen == 2

Timestamps == 0..MaxTimestamp
Numbers == 0..MaxNumber

\* ---------------------------------------------------------------- values
\* the byte values told apart: zero and a non-zero one
Bytes == {0, 255}
B256 == [1..HashLen -> Bytes]
ZERO == [i \in 1..HashLen |-> 0]

is_zero(h) == \A i \in 1..HashLen : h[i] = 0

\* parent_block_hash.0.into(): the fixed array copied into a byte string
into_bytes(h) == [i \in 1..HashLen |-> h[i]]

None == [tag |-> "None"]
Some(x) == [tag |-> "Some", val |-> x]
OptionB256 == {None} \cup {Some(h) : h \in B256}

Ok(v) == [tag |-> "Ok", val |-> v]
Err(e) == [tag |-> "Err", err |-> e]
\* the process stopped inside the procedure: nothing is returned
Abort == [tag |-> "Abort"]
\* no procedure has been invoked on the current EVM handle yet
Idle == [tag |-> "Idle"]

SYSTEM_ADDRESS == "SYSTEM_ADDRESS"
HISTORY_STORAGE_ADDRESS == "HISTORY_STORAGE_ADDRESS"
BEACON_ROOTS_ADDRESS == "BEACON_ROOTS_ADDRESS"
Contracts == {HISTORY_STORAGE_ADDRESS, BEACON_ROOTS_ADDRESS}

\* BlockValidationError variants built by the two procedures
MissingParentBeaconBlockRoot == [variant |-> "MissingParentBeaconBlockRoot"]
CancunGenesisParentBeaconBlockRootNotZero(root) ==
    [variant |-> "CancunGenesisParentBeaconBlockRootNotZero",
     parent_beacon_block_root |-> root]
BlockHashContractCall(msg) == [variant |-> "BlockHashContractCall", message |-> msg]
BeaconRootContractCall(root, msg) ==
    [variant |-> "BeaconRootContractCall",
     parent_beacon_block_root |-> root, message |-> msg]

\* ------------------------------------------------- hardfork capability
\* impl EthereumHardforks: for each fork, a predicate on timestamps
HardforkCapabilities == [cancun : [Timestamps -> BOOLEAN], prague : [Timestamps -> BOOLEAN]]

is_cancun_active_at_timestamp(spec, ts) == spec.cancun[ts]
is_prague_active_at_timestamp(spec, ts) == spec.prague[ts]

\* ------------------------------------------------------ the EVM handle
\* what the engine does with a system call: the called contract succeeds,
\* reverts or halts, or the engine cannot execute the call at all
Behaviours == {"Success", "Revert", "Halt", "HeaderError", "DatabaseError"}
\* the Halt type parameter of the Evm implementation
HaltTypes == {"OpHaltReason", "HaltReason"}

EngineError(b) == [variant |-> b, detail |-> IF b = "HeaderError" THEN "PrevrandaoNotSet" ELSE "io"]

\* e.to_string(): Display of the engine error
to_string(e) ==
    << IF e.variant = "HeaderError" THEN "header validation error" ELSE "database error",
       e.detail >>

\* Evm::transact_system_call: runs the call against the current state and
\* returns the outcome and the state diff without committing them
transact_system_call(evm, caller, contract, data) ==
    LET gas == IF evm.db[contract] = data THEN 1 ELSE 2
        out == CASE evm.behaviour = "Success" ->
                      Ok([result |-> [variant |-> "Success", reason |-> "Stop",
                                      gas_used |-> gas, gas_refunded |-> 0,
                                      logs |-> <<>>, output |-> <<>>],
                          state |-> (contract :> data)])
                 [] evm.behaviour = "Revert" ->
                      Ok([result |-> [variant |-> "Revert", gas_used |-> gas,
                                      output |-> data],
                          state |-> (caller :> ZERO)])
                 [] evm.behaviour = "Halt" ->
                      Ok([result |-> [variant |-> "Halt", reason |-> "OutOfGas",
                                      gas_used |-> gas],
                          state |-> (caller :> ZERO)])
                 [] OTHER -> Err(EngineError(evm.behaviour))
    IN [evm |-> evm, out |-> out,
        call |-> [caller |-> caller, contract |-> contract, data |-> data, out |-> out]]

\* outcomes of reading a &Halt through a reference transmuted to &OpHaltReason
TransmuteOutcomes == {"Sound", "Abort"}

\* the Ok(res) arm: res is logged and handed back; the Halt arm reinterprets
\* the halt reason as OpHaltReason, which is defined only when Halt is that type
LogAndReturn(evm, res, ub) ==
    IF res.result.variant = "Halt" /\ evm.haltType # "OpHaltReason" /\ ub = "Abort"
    THEN Abort
    ELSE Ok(Some(res))

\* ---------------------------------------------------------- eip2935.rs
\* variant: the genesis check of eip2935.rs:38 is missing
transact_blockhashes_contract_call_no_genesis(spec, parent_block_hash, evm, ub) ==
    IF ~is_prague_active_at_timestamp(spec, evm.block.timestamp)
    THEN [ret |-> Ok(None), calls |-> <<>>, evm |-> evm]
    ELSE LET r == transact_system_call(evm, SYSTEM_ADDRESS, HISTORY_STORAGE_ADDRESS,
                                       into_bytes(parent_block_hash))
         IN [ret |-> IF r.out.tag = "Ok"
                     THEN LogAndReturn(r.evm, r.out.val, ub)
                     ELSE Err(BlockHashContractCall(to_string(r.out.err))),
             calls |-> <<r.call>>,
             evm |-> r.evm]

\* variant: the call goes to the beacon roots contract instead of the history contract
transact_blockhashes_contract_call_wrong_target(spec, parent_block_hash, evm, ub) ==
    IF ~is_prague_active_at_timestamp(spec, evm.block.timestamp)
    THEN [ret |-> Ok(None), calls |-> <<>>, evm |-> evm]
    ELSE IF evm.block.number = 0
    THEN [ret |-> Ok(None), calls |-> <<>>, evm |-> evm]
    ELSE LET r == transact_system_call(evm, SYSTEM_ADDRESS, BEACON_ROOTS_ADDRESS,
                                       into_bytes(parent_block_hash))
         IN [ret |-> IF r.out.tag = "Ok"
                     THEN LogAndReturn(r.evm, r.out.val, ub)
                     ELSE Err(BlockHashContractCall(to_string(r.out.err))),
             calls |-> <<r.call>>,
             evm |-> r.evm]

\* variant: the state diff of the call is written into the database of the handle
transact_blockhashes_contract_call_commit(spec, parent_block_hash, evm, ub) ==
    IF ~is_prague_active_at_timestamp(spec, evm.block.timestamp)
    THEN [ret |-> Ok(None), calls |-> <<>>, evm |-> evm]
    ELSE IF evm.block.number = 0
    THEN [ret |-> Ok(None), calls |-> <<>>, evm |-> evm]
    ELSE LET r == transact_system_call(evm, SYSTEM_ADDRESS, HISTORY_STORAGE_ADDRESS,
                                       into_bytes(parent_block_hash))
             applied == IF r.out.tag = "Ok"
                        THEN [c \in DOMAIN r.evm.db |->
                                IF c \in DOMAIN r.out.val.state
                                THEN r.out.val.state[c] ELSE r.evm.db[c]]
                        ELSE r.evm.db
         IN [ret |-> IF r.out.tag = "Ok"
                     THEN LogAndReturn(r.evm, r.out.val, ub)
                     ELSE Err(BlockHashContractCall(to_string(r.out.err))),
             calls |-> <<r.call>>,
             evm |-> [r.evm EXCEPT !.db = applied]]

\* variant: the engine failure is replaced by a fixed message
transact_blockhashes_contract_call_fixed_message(spec, parent_block_hash, evm, ub) ==
    IF ~is_prague_active_at_timestamp(spec, evm.block.timestamp)
    THEN [ret |-> Ok(None), calls |-> <<>>, evm |-> evm]
    ELSE IF evm.block.number = 0
    THEN [ret |-> Ok(None), calls |-> <<>>, evm |-> evm]
    ELSE LET r == transact_system_call(evm, SYSTEM_ADDRESS, HISTORY_STORAGE_ADDRESS,
                                       into_bytes(parent_block_hash))
         IN [ret |-> IF r.out.tag = "Ok"
                     THEN LogAndReturn(r.evm, r.out.val, ub)
                     ELSE Err(BlockHashContractCall(<<"system call failed">>)),
             calls |-> <<r.call>>,
             evm |-> r.evm]

transact_blockhashes_contract_call(spec, parent_block_hash, evm, ub) ==
    IF ~is_prague_active_at_timestamp(spec, evm.block.timestamp)
    THEN [ret |-> Ok(None), calls |-> <<>>, evm |-> evm]
    ELSE IF evm.block.number = 0
    THEN [ret |-> Ok(None), calls |-> <<>>, evm |-> evm]
    ELSE LET r == transact_system_call(evm, SYSTEM_ADDRESS, HISTORY_STORAGE_ADDRESS,
                                       into_bytes(parent_block_hash))
         IN [ret |-> IF r.out.tag = "Ok"
                     THEN LogAndReturn(r.evm, r.out.val, ub)
                     ELSE Err(BlockHashContractCall(to_string(r.out.err))),
             calls |-> <<r.call>>,
             evm |-> r.evm]

\* ---------------------------------------------------------- eip4788.rs
\* the part of the beacon root procedure after the gate and the two checks
DispatchBeaconRoot(root, evm, ub) ==
    LET r == transact_system_call(evm, SYSTEM_ADDRESS, BEACON_ROOTS_ADDRESS,
                                  into_bytes(root))
    IN [ret |-> IF r.out.tag = "Ok"
                THEN LogAndReturn(r.evm, r.out.val, ub)
                ELSE Err(BeaconRootContractCall(root, to_string(r.out.err))),
        calls |-> <<r.call>>,
        evm |-> r.evm]

\* variant: the root is required before the Cancun gate is consulted
transact_beacon_root_contract_call_required_first(spec, parent_beacon_block_root, evm, ub) ==
    IF parent_beacon_block_root = None
    THEN [ret |-> Err(MissingParentBeaconBlockRoot), calls |-> <<>>, evm |-> evm]
    ELSE IF ~is_cancun_active_at_timestamp(spec, evm.block.timestamp)
    THEN [ret |-> Ok(None), calls |-> <<>>, evm |-> evm]
    ELSE LET root == parent_beacon_block_root.val IN
         IF evm.block.number = 0
         THEN IF ~is_zero(root)
              THEN [ret |-> Err(CancunGenesisParentBeaconBlockRootNotZero(root)),
                    calls |-> <<>>, evm |-> evm]
              ELSE [ret |-> Ok(None), calls |-> <<>>, evm |-> evm]
         ELSE DispatchBeaconRoot(root, evm, ub)

\* variant: an absent root is read as the zero hash (unwrap_or_default)
transact_beacon_root_contract_call_default_root(spec, parent_beacon_block_root, evm, ub) ==
    IF ~is_cancun_active_at_timestamp(spec, evm.block.timestamp)
    THEN [ret |-> Ok(None), calls |-> <<>>, evm |-> evm]
    ELSE LET root == IF parent_beacon_block_root = None
                     THEN ZERO ELSE parent_beacon_block_root.val IN
         IF evm.block.number = 0
         THEN IF ~is_zero(root)
              THEN [ret |-> Err(CancunGenesisParentBeaconBlockRootNotZero(root)),
                    calls |-> <<>>, evm |-> evm]
              ELSE [ret |-> Ok(None), calls |-> <<>>, evm |-> evm]
         ELSE DispatchBeaconRoot(root, evm, ub)

\* variant: the genesis error carries a default hash instead of the supplied root
transact_beacon_root_contract_call_error_default(spec, parent_beacon_block_root, evm, ub) ==
    IF ~is_cancun_active_at_timestamp(spec, evm.block.timestamp)
    THEN [ret |-> Ok(None), calls |-> <<>>, evm |-> evm]
    ELSE IF parent_beacon_block_root = None
    THEN [ret |-> Err(MissingParentBeaconBlockRoot), calls |-> <<>>, evm |-> evm]
    ELSE LET root == parent_beacon_block_root.val IN
         IF evm.block.number = 0
         THEN IF ~is_zero(root)
              THEN [ret |-> Err(CancunGenesisParentBeaconBlockRootNotZero(ZERO)),
                    calls |-> <<>>, evm |-> evm]
              ELSE [ret |-> Ok(None), calls |-> <<>>, evm |-> evm]
         ELSE DispatchBeaconRoot(root, evm, ub)

\* variant: the genesis block validates the root but does not return early
transact_beacon_root_contract_call_genesis_dispatch(spec, parent_beacon_block_root, evm, ub) ==
    IF ~is_cancun_active_at_timestamp(spec, evm.block.timestamp)
    THEN [ret |-> Ok(None), calls |-> <<>>, evm |-> evm]
    ELSE IF parent_beacon_block_root = None
    THEN [ret |-> Err(MissingParentBeaconBlockRoot), calls |-> <<>>, evm |-> evm]
    ELSE LET root == parent_beacon_block_root.val IN
         IF evm.block.number = 0 /\ ~is_zero(root)
         THEN [ret |-> Err(CancunGenesisParentBeaconBlockRootNotZero(root)),
               calls |-> <<>>, evm |-> evm]
         ELSE DispatchBeaconRoot(root, evm, ub)

transact_beacon_root_contract_call(spec, parent_beacon_block_root, evm, ub) ==
    IF ~is_cancun_active_at_timestamp(spec, evm.block.timestamp)
    THEN [ret |-> Ok(None), calls |-> <<>>, evm |-> evm]
    ELSE IF parent_beacon_block_root = None
    THEN [ret |-> Err(MissingParentBeaconBlockRoot), calls |-> <<>>, evm |-> evm]
    ELSE LET root == parent_beacon_block_root.val IN
         IF evm.block.number = 0
         THEN IF ~is_zero(root)
              THEN [ret |-> Err(CancunGenesisParentBeaconBlockRootNotZero(root)),
                    calls |-> <<>>, evm |-> evm]
              ELSE [ret |-> Ok(None), calls |-> <<>>, evm |-> evm]
         ELSE DispatchBeaconRoot(root, evm, ub)

\* ----------------------------------------------------------------- state
VARIABLES
    chainSpec,          \* the hardfork capability handed to the procedures
    block,              \* evm.block(): timestamp and number
    db,                 \* committed backing state of the EVM, per contract
    behaviour,          \* how the engine answers a system call
    haltType,           \* the Halt type of the Evm implementation
    last,               \* the latest invocation: procedure and argument
    ret,                \* what the latest invocation returned
    calls,              \* dispatcher invocations made by the latest invocation
    genesisDispatches,  \* dispatcher invocations made while block.number = 0
    first               \* an earlier invocation on the same state, with its outcome

vars == <<chainSpec, block, db, behaviour, haltType, last, ret, calls,
          genesisDispatches, first>>

NoCall == [proc |-> "none"]

Evm == [block |-> block, db |-> db, behaviour |-> behaviour, haltType |-> haltType]

Init ==
    /\ chainSpec \in HardforkCapabilities
    /\ block \in [timestamp : Timestamps, number : Numbers]
    /\ db = [c \in Contracts |-> ZERO]
    /\ behaviour \in Behaviours
    /\ haltType \in HaltTypes
    /\ last = NoCall
    /\ ret = Idle
    /\ calls = <<>>
    /\ genesisDispatches = 0
    /\ first = NoCall

Running == ret # Abort

\* the effect of one procedure invocation on everything except `first`
Invoke(proc, arg, r) ==
    /\ last' = [proc |-> proc, arg |-> arg]
    /\ ret' = r.ret
    /\ calls' = r.calls
    /\ block' = r.evm.block
    /\ db' = r.evm.db
    /\ behaviour' = r.evm.behaviour
    /\ haltType' = r.evm.haltType
    /\ genesisDispatches' =
          IF block.number = 0 THEN genesisDispatches + Len(r.calls) ELSE genesisDispatches
    /\ UNCHANGED chainSpec

ApplyBlockhashes(h, ub) ==
    /\ Running
    /\ Invoke("blockhashes", h, transact_blockhashes_contract_call(chainSpec, h, Evm, ub))

ApplyBeaconRoot(root, ub) ==
    /\ Running
    /\ Invoke("beacon_root", root, transact_beacon_root_contract_call(chainSpec, root, Evm, ub))

\* the caller commits the state diff of the result it was handed
Commit ==
    /\ Running
    /\ ret.tag = "Ok" /\ ret.val # None
    /\ LET diff == ret.val.val.state IN
         db' = [c \in Contracts |-> IF c \in DOMAIN diff THEN diff[c] ELSE db[c]]
    /\ last' = NoCall /\ ret' = Idle /\ calls' = <<>> /\ first' = NoCall
    /\ UNCHANGED <<chainSpec, block, behaviour, haltType, genesisDispatches>>

\* the caller moves on to another block: a new block environment
NewBlock ==
    /\ Running
    /\ \E b \in [timestamp : Timestamps, number : Numbers] :
         /\ b # block
         /\ block' = b
    /\ last' = NoCall /\ ret' = Idle /\ calls' = <<>> /\ first' = NoCall
    /\ UNCHANGED <<chainSpec, db, behaviour, haltType, genesisDispatches>>

Blockhashes ==
    \E h \in B256, ub \in TransmuteOutcomes :
        ApplyBlockhashes(h, ub) /\ UNCHANGED first

BeaconRoot ==
    \E root \in OptionB256, ub \in TransmuteOutcomes :
        ApplyBeaconRoot(root, ub) /\ UNCHANGED first

Next == Blockhashes \/ BeaconRoot \/ Commit \/ NewBlock

Spec == Init /\ [][Next]_vars

\* The same program with a history variable: `first` remembers one earlier
\* invocation made on the current block and database, with what it returned.
Remember(keep) ==
    first' = IF first = NoCall /\ keep
             THEN [proc |-> last'.proc, arg |-> last'.arg, ret |-> ret']
             ELSE first

BlockhashesRemembered ==
    \E h \in B256, ub \in TransmuteOutcomes, keep \in BOOLEAN :
        ApplyBlockhashes(h, ub) /\ Remember(keep)

BeaconRootRemembered ==
    \E root \in OptionB256, ub \in TransmuteOutcomes, keep \in BOOLEAN :
        ApplyBeaconRoot(root, ub) /\ Remember(keep)

NextRemembered == BlockhashesRemembered \/ BeaconRootRemembered \/ Commit \/ NewBlock

SpecRemembered == Init /\ [][NextRemembered]_vars

\* ---------------------------------------------------------------- claims
Invoked == last.proc # "none"
IsBlockhashes == last.proc = "blockhashes"
IsBeaconRoot == last.proc = "beacon_root"
CancunActive == is_cancun_active_at_timestamp(chainSpec, block.timestamp)
PragueActive == is_prague_active_at_timestamp(chainSpec, block.timestamp)
ForkActive == (IsBlockhashes /\ PragueActive) \/ (IsBeaconRoot /\ CancunActive)
Genesis == block.number = 0
RootSupplied == IsBeaconRoot /\ last.arg # None
IsGenesisRootError(e) == e.variant = "CancunGenesisParentBeaconBlockRootNotZero"

\* C1: when the relevant hardfork (Prague for the blockhashes call, Cancun for
\* the beacon root call) is inactive at the block's timestamp, the procedure
\* returns Ok(None) and makes no dispatcher invocation, whatever the block
\* number and whatever the optional root.
C1_ActivationGate ==
    (Invoked /\ ~ForkActive) => (ret = Ok(None) /\ calls = <<>>)

W_C1_InactiveAbsentRootAtGenesis ==
    /\ IsBeaconRoot /\ ~CancunActive /\ Genesis
    /\ last.arg = None
    /\ ret = Ok(None)

\* C2: with Cancun active and the parent beacon block root absent, the beacon
\* root procedure fails with MissingParentBeaconBlockRoot and makes no
\* dispatcher invocation, at every block number.
C2_RequiredRoot ==
    (IsBeaconRoot /\ CancunActive /\ last.arg = None)
        => (ret = Err(MissingParentBeaconBlockRoot) /\ calls = <<>>)

W_C2_AbsentRootAtGenesis ==
    /\ IsBeaconRoot /\ CancunActive /\ Genesis
    /\ last.arg = None
    /\ ret.tag = "Err"

\* C3: at block number 0 with Cancun active and a root supplied, the beacon
\* root procedure returns Ok(None) exactly when the root is the zero hash, and
\* for a non-zero root fails with CancunGenesisParentBeaconBlockRootNotZero
\* carrying the supplied root.
C3_GenesisRootValidation ==
    (RootSupplied /\ CancunActive /\ Genesis)
        => /\ (ret = Ok(None)) <=> is_zero(last.arg.val)
           /\ ~is_zero(last.arg.val)
                 => ret = Err(CancunGenesisParentBeaconBlockRootNotZero(last.arg.val))

W_C3_NonZeroRootRejected ==
    /\ RootSupplied /\ CancunActive /\ Genesis
    /\ ~is_zero(last.arg.val) /\ last.arg.val[1] = 0
    /\ ret.tag = "Err" /\ IsGenesisRootError(ret.err)

\* C4 as claimed: at block number 0 with the relevant hardfork active, both
\* procedures return Ok(None) for every input, the only exception being a
\* supplied non-zero root, which the beacon root procedure rejects.
C4_GenesisPolicy_Original ==
    (Invoked /\ ForkActive /\ Genesis)
        => \/ ret = Ok(None)
           \/ /\ RootSupplied /\ ~is_zero(last.arg.val)
              /\ ret.tag = "Err" /\ IsGenesisRootError(ret.err)

\* C4 as amended: at block number 0 with the relevant hardfork active, the
\* blockhashes procedure returns Ok(None) for every parent hash; the beacon
\* root procedure returns Ok(None) for the zero root, fails with
\* MissingParentBeaconBlockRoot for an absent root and with
\* CancunGenesisParentBeaconBlockRootNotZero for a non-zero root.
C4_GenesisPolicy ==
    (Invoked /\ ForkActive /\ Genesis)
        => /\ IsBlockhashes => ret = Ok(None)
           /\ (RootSupplied /\ is_zero(last.arg.val)) => ret = Ok(None)
           /\ (IsBeaconRoot /\ last.arg = None) => ret = Err(MissingParentBeaconBlockRoot)
           /\ (RootSupplied /\ ~is_zero(last.arg.val))
                 => (ret.tag = "Err" /\ IsGenesisRootError(ret.err))

W_C4_BlockhashesAtGenesis ==
    /\ IsBlockhashes /\ PragueActive /\ Genesis
    /\ ~is_zero(last.arg)
    /\ ret = Ok(None)

\* C5: at block number > 0 with the relevant hardfork active (and a root
\* supplied, for the beacon root procedure), the procedure invokes the
\* dispatcher exactly once with caller SYSTEM_ADDRESS, the contract of the
\* procedure as target and the bytes of the hash as input.
C5_Dispatch ==
    /\ (IsBlockhashes /\ PragueActive /\ ~Genesis)
          => /\ Len(calls) = 1
             /\ calls[1].caller = SYSTEM_ADDRESS
             /\ calls[1].contract = HISTORY_STORAGE_ADDRESS
             /\ calls[1].data = last.arg
    /\ (RootSupplied /\ CancunActive /\ ~Genesis)
          => /\ Len(calls) = 1
             /\ calls[1].caller = SYSTEM_ADDRESS
             /\ calls[1].contract = BEACON_ROOTS_ADDRESS
             /\ calls[1].data = last.arg.val

W_C5_ZeroHashDispatched ==
    /\ IsBlockhashes /\ PragueActive /\ ~Genesis
    /\ is_zero(last.arg)
    /\ Len(calls) = 1

\* C6: whenever the dispatcher returned an outcome and state diff, the
\* procedure returns Ok(Some) of exactly that outcome and diff, for each of
\* Success, Revert and Halt.
C6_Passthrough ==
    \A i \in 1..Len(calls) :
        calls[i].out.tag = "Ok" => ret = Ok(Some(calls[i].out.val))

\* C7: whenever the dispatcher returned an engine failure, the blockhashes
\* procedure returns BlockHashContractCall and the beacon root procedure
\* BeaconRootContractCall with the supplied root, the message being the
\* failure's description; the dispatcher was invoked exactly once.
C7_FailureMapping ==
    \A i \in 1..Len(calls) :
        calls[i].out.tag = "Err"
            => /\ Len(calls) = 1
               /\ IsBlockhashes
                     => ret = Err(BlockHashContractCall(to_string(calls[i].out.err)))
               /\ IsBeaconRoot
                     => ret = Err(BeaconRootContractCall(last.arg.val,
                                                         to_string(calls[i].out.err)))

W_C7_BlockhashesEngineFailure ==
    /\ IsBlockhashes
    /\ Len(calls) = 1 /\ calls[1].out.tag = "Err"
    /\ ret.tag = "Err" /\ ret.err.variant = "BlockHashContractCall"
    /\ ret.err.message[2] = "PrevrandaoNotSet"

\* C8: on the same block context and an unmodified database, an invocation
\* with the inputs of an earlier invocation yields the outcome of that
\* earlier invocation.
C8_Idempotence ==
    (first # NoCall /\ last.proc = first.proc /\ last.arg = first.arg)
        => ret = first.ret

\* C9: an invocation of either procedure leaves the committed database and
\* the block context unchanged, whatever it returns.
C9_NoCommit ==
    [][last' # NoCall => (db' = db /\ block' = block)]_vars

W_C9_DiffOnlyReturned ==
    /\ Invoked
    /\ ret.tag = "Ok" /\ ret.val # None
    /\ \E c \in Contracts :
          /\ c \in DOMAIN ret.val.val.state
          /\ ret.val.val.state[c] # db[c]

\* C10: no dispatcher invocation is ever made while the block number is 0.
C10_GenesisNeverDispatches ==
    /\ genesisDispatches = 0
    /\ (Invoked /\ Genesis) => calls = <<>>

W_C10_GenesisActiveZeroRoot ==
    /\ IsBeaconRoot /\ CancunActive /\ Genesis
    /\ last.arg = Some(ZERO)
    /\ ret = Ok(None) /\ calls = <<>>

====
